---- MODULE Spec2Model ----
(***************************************************************************)
(* Text layout of satori (src/src/text.ts, buildTextNodes): the word list, *)
(* the measurement callback registered with setMeasureFunc, and the        *)
(* painter loop that runs after the second yield.                          *)
(*                                                                         *)
(* The measurement callback is modelled one loop iteration per step       *)
(* (MeasureCall enters it, MeasureStep is one iteration of the for loop of *)
(* lines 277-403, MeasureReturn is lines 404-412), because the loop grows  *)
(* the list it scans (words.splice, line 339) and need not terminate.      *)
(***************************************************************************)
EXTENDS Integers, Sequences, FiniteSets, TLC

\* ---------------------------------------------------------------- bounds
MaxInitWords == 2   \* words produced by segmentation (lines 89-95)
MaxCalls == 2       \* measurement calls yoga makes before the painter runs
MaxExtraSplices == 2 \* splices explored beyond one per segmented word

\* Available widths yoga passes to the callback; content-box widths of the parent.
Widths == {1, 2, 3}

\* ---------------------------------------------------------------- values
LF == "\n"
ELLIPSIS == "..."
NoStyle == "undefined"

\* An InlineText (lines 18-23): content is the list of its graphemes.
InlineText(c, s) == [content |-> c, style |-> s]

\* The words segmentation can produce for the runs of the model.
Tokens ==
  { InlineText(<<"i">>, NoStyle),
    InlineText(<<"M">>, "red"),
    InlineText(<<"i", "M">>, "red"),
    InlineText(<<" ">>, NoStyle),
    InlineText(<<LF>>, NoStyle) }

WhiteSpaceModes == {"normal", "nowrap", "pre", "pre-wrap", "pre-line"}

RECURSIVE SeqsUpTo(_, _)
SeqsUpTo(S, n) ==
  IF n = 0 THEN { <<>> }
  ELSE LET shorter == SeqsUpTo(S, n - 1)
       IN shorter \cup { Append(s, x) : s \in { t \in shorter : Len(t) = n - 1 }, x \in S }

Max(a, b) == IF a >= b THEN a ELSE b

\* ---------------------------------------------------------------- collaborators
\* segment(content, 'grapheme'): the graphemes of a word, in order.
segment(content) == content

\* engine.measure(s): advance width of one grapheme; a string is the sum of its
\* graphemes (no kerning).
GlyphWidth(g) ==
  CASE g = "i" -> 1
    [] g = "M" -> 2
    [] g = " " -> 1
    [] g = ELLIPSIS -> 1
    [] g = "." -> 1
    [] OTHER -> 0

RECURSIVE EngineMeasure(_)
EngineMeasure(content) ==
  IF content = <<>> THEN 0
  ELSE GlyphWidth(Head(content)) + EngineMeasure(Tail(content))

\* engine.height(s) / engine.baseline(s): "M" comes from a taller font.
EngineHeight(content) ==
  IF \E k \in 1..Len(content) : content[k] = "M" THEN 2 ELSE 1

EngineBaseline(content) ==
  IF \E k \in 1..Len(content) : content[k] = "M" THEN 2 ELSE 1

\* wordSeparators (utils): the characters that separate words.
wordSeparators == {" ", LF}

\* graphemeImages of the context: no image is configured.
graphemeImages == {}

\* parentStyle.fontSize, the width of an image-replaced token.
fontSize == 2

\* measureWithCache (lines 176-188): the memo only avoids re-querying the engine,
\* which is fixed once the callback is registered, so a hit returns what a miss
\* would compute.
RECURSIVE measureWithCache(_)
measureWithCache(segments) ==
  IF segments = <<>> THEN 0
  ELSE EngineMeasure(Head(segments)) + measureWithCache(Tail(segments))

\* ---------------------------------------------------------------- state
VARIABLES
  words,                 \* the shared word list (line 89), grown by splice
  origWords,             \* history: the list as segmentation produced it
  whiteSpace,            \* parentStyle.whiteSpace
  isBreakWord,           \* line 76
  lineWidths, baselines, lineSegmentNumber, wordPositionInLayout,   \* lines 162-171
  pc,                    \* "start" | "fonts" | "error" | "idle" | "scan" | "painted"
  parent,                \* the parent yoga node: its width constraints and flex-shrink
  origParent,            \* history: the parent as the invocation found it
  setMinWidthCalls,      \* history: the values passed to parent.setMinWidth
  protocol,              \* history: yields, resumes and the end of the generator
  yielded,               \* the value the suspended generator handed to its caller
  width,                 \* the callback's argument
  i, lines, remainingSpace, remainingSpaceWidth, _currentWidth, maxWidth,
  lineIndex, height, currentLineHeight, currentBaselineOffset,     \* lines 261-269
  result,                \* what the last completed call returned
  calls,                 \* calls entered so far
  log,                   \* history: <<width, words at entry, result>> per completed call
  startWords,            \* history: words when the running call was entered
  baseStart,             \* history: baselines.length when the last call was entered
  written,               \* history: indices of wordPositionInLayout the last call wrote
  wrapLines,             \* history: lines the last call recorded because willWrap held
  paint                  \* what the painter produced

context == <<origWords, whiteSpace, isBreakWord, origParent>>
generator == <<parent, setMinWidthCalls, protocol, yielded>>
arrays == <<lineWidths, baselines, lineSegmentNumber, wordPositionInLayout>>
locals == <<width, i, lines, remainingSpace, remainingSpaceWidth, _currentWidth,
            maxWidth, lineIndex, height, currentLineHeight, currentBaselineOffset>>
history == <<log, startWords, baseStart, written, wrapLines>>
vars == <<words, context, generator, arrays, pc, locals, result, calls, history, paint>>

\* Entries of wordPositionInLayout: a hole (never assigned), null, or a record.
Hole == [kind |-> "hole"]
Null == [kind |-> "null"]
Position(x, y, w, line, li) ==
  [kind |-> "pos", x |-> x, y |-> y, width |-> w, line |-> line, lineIndex |-> li]

NoResult == [kind |-> "none"]
Size(w, h) == [kind |-> "size", width |-> w, height |-> h]
NoPaint == [kind |-> "none"]

shouldKeepLinebreak == whiteSpace \in {"pre", "pre-wrap", "pre-line"}      \* line 253
shouldCollapseWhitespace == whiteSpace \notin {"pre", "pre-wrap"}          \* line 256

\* The min-width scan (line 201) reads word[0].content when white-space is pre:
\* word is an InlineText, word[0] is undefined, and the read throws on the first
\* word, before setMeasureFunc. The callback exists in pre mode only for no words.
ReachesSetMeasureFunc(ws, mode) == mode = "pre" => ws = <<>>

\* A yoga value as getWidth/getMinWidth/getMaxWidth return it: value is NaN when
\* the constraint is absent; unit 1 is a point length, unit 2 a percentage.
YogaValue(v, u) == [nan |-> FALSE, value |-> v, unit |-> u]
Undefined == [nan |-> TRUE, value |-> 0, unit |-> 0]
Point(v) == YogaValue(v, 1)
Percent(v) == YogaValue(v, 2)
isNaN(v) == v.nan
Min(a, b) == IF a <= b THEN a ELSE b

\* The parent node: its constraints, the width of its containing block (what a
\* percentage refers to), its flex-shrink and whether its style sets flex-shrink.
ParentNode(w, mn, mx, styleFlexShrink) ==
  [width |-> w, minWidth |-> mn, maxWidth |-> mx, containing |-> 2,
   flexShrink |-> 0, styleFlexShrink |-> styleFlexShrink]

DefaultParent == ParentNode(Undefined, Undefined, Undefined, "undefined")

Parents ==
  { ParentNode(w, mn, mx, fs) :
      w \in {Undefined, Point(2)},
      mn \in {Undefined, Point(1), Point(3), Percent(50)},
      mx \in {Undefined, Point(1), Percent(50)},
      fs \in {"undefined", "set"} }

\* wordSeparators.includes(word.content[0]), lines 205 and 212.
StartsWithSeparator(content) == content # <<>> /\ content[1] \in wordSeparators

\* lines 195-229: one pass over the words; remainingSegment is the unbreakable
\* run collected so far. With white-space pre the loop body throws (line 201), so
\* the pass is only ever completed in pre mode for an empty list.
RECURSIVE MinWidthScan(_, _, _, _, _)
MinWidthScan(ws, mode, minWidth, remainingSegment, extraWidth) ==
  IF ws = <<>>
  THEN Max(minWidth, measureWithCache(remainingSegment) + extraWidth)     \* line 230
  ELSE
    LET word == Head(ws)
        isImage == word.content \in graphemeImages
        breakSegment ==
          /\ mode # "pre"
          /\ mode # "nowrap"
          /\ (isImage \/ StartsWithSeparator(word.content))
    IN IF ~breakSegment
       THEN MinWidthScan(Tail(ws), mode, minWidth,
              IF ~StartsWithSeparator(word.content) \/ remainingSegment = <<>>
              THEN Append(remainingSegment,
                          IF word.content = <<LF>> THEN <<" ">> ELSE word.content)
              ELSE remainingSegment,
              extraWidth)
       ELSE IF mode = "nowrap"
       THEN MinWidthScan(Tail(ws), mode, minWidth, <<>>,
              extraWidth + measureWithCache(remainingSegment) + fontSize)
       ELSE MinWidthScan(Tail(ws), mode,
              Max(IF isImage THEN Max(minWidth, fontSize) ELSE minWidth,
                  measureWithCache(remainingSegment)),
              <<>>, extraWidth)

\* lines 192-230
ComputedMinWidth(ws, mode) == MinWidthScan(ws, mode, 0, <<>>, 0)

\* lines 234-238: the condition under which parent.setMinWidth is called.
AppliesMinWidth(p, minWidth) ==
  /\ isNaN(p.width)
  /\ \/ isNaN(p.minWidth)
     \/ (p.minWidth.unit = 1 /\ p.minWidth.value > minWidth)

\* lines 239-246: minWidth is clamped to a max-width given as a point length.
ClampToMaxWidth(p, minWidth) ==
  IF ~isNaN(p.maxWidth) /\ p.maxWidth.unit = 1
  THEN Min(minWidth, p.maxWidth.value)
  ELSE minWidth

\* engine.has(word): the font loaded at first has no glyph for "M".
EngineHas(content) == \A k \in 1..Len(content) : content[k] # "M"

NoValue == [kind |-> "none"]

\* The state when buildTextNodes is invoked on a text of the words in T and a
\* parent in P: the words are segmented (lines 89-95) and nothing else has run.
InitFor(T, P) ==
  /\ words \in SeqsUpTo(T, MaxInitWords)
  /\ origWords = words
  /\ whiteSpace \in WhiteSpaceModes
  /\ isBreakWord \in BOOLEAN
  /\ parent \in P
  /\ origParent = parent
  /\ setMinWidthCalls = <<>>
  /\ protocol = <<>>
  /\ yielded = NoValue
  /\ lineWidths = <<>> /\ baselines = <<>> /\ lineSegmentNumber = <<>>
  /\ wordPositionInLayout = <<>>
  /\ pc = "start"
  /\ width = 0 /\ i = 0 /\ lines = 0
  /\ remainingSpace = <<>> /\ remainingSpaceWidth = 0
  /\ _currentWidth = 0 /\ maxWidth = 0 /\ lineIndex = -1 /\ height = 0
  /\ currentLineHeight = 0 /\ currentBaselineOffset = 0
  /\ result = NoResult
  /\ calls = 0
  /\ log = <<>> /\ startWords = words /\ baseStart = 0 /\ written = {} /\ wrapLines = {}
  /\ paint = NoPaint

\* A parent without width constraints whose style leaves flex-shrink unset.
Init == InitFor(Tokens, {DefaultParent})

\* Parents with explicit widths, min-widths and max-widths.
InitWithParent == InitFor(Tokens, Parents)

\* Texts with closing punctuation.
PunctuatedTokens ==
  { InlineText(<<"i">>, NoStyle),
    InlineText(<<"i", "M">>, NoStyle),
    InlineText(<<".">>, NoStyle),
    InlineText(<<" ">>, NoStyle) }

InitPunctuated == InitFor(PunctuatedTokens, {DefaultParent})

\* ---------------------------------------------------------------- helpers
\* Mutant of SetAt: the entry is pushed instead of assigned at its index.
PushAt(arr, k, v) == Append(arr, v)

\* arr[k] = v on a JavaScript array (k counts from 0): writing past the end
\* leaves holes.
SetAt(arr, k, v) ==
  IF k < Len(arr) THEN [arr EXCEPT ![k + 1] = v]
  ELSE arr \o [j \in 1..(k - Len(arr)) |-> Hole] \o <<v>>

\* wordPositionInLayout[k] (k counts from 0); past the end it is undefined.
PositionAt(k) == IF k < Len(wordPositionInLayout) THEN wordPositionInLayout[k + 1] ELSE Hole

\* word[0] (lines 288, 318): word is an InlineText, which has no property "0".
wordAt0(word) == "undefined"

\* wordSeparators.includes(word[0]), line 285.
IsWordSeparator(c) == c \in wordSeparators

ClosingPunctuation == {",", ".", "!", "?", ":", "-", "@", ")", ">", "]", "}", "%", "#"}

\* ',.!?:-@)>]}%#'.indexOf(c) < 0, line 318; indexOf(undefined) searches the
\* string "undefined".
NotClosingPunctuation(c) == c \notin ClosingPunctuation

\* line 317
allowedToPutAtBeginning(rsw, word) == rsw # 0 \/ NotClosingPunctuation(wordAt0(word))

\* line 319
allowedToJustify(cw, rsw) == cw = 0 \/ rsw # 0

\* lines 321-326
willWrap(k, allowed, cw, rsw, w, W) ==
  /\ k # 0
  /\ allowed
  /\ cw + rsw + w > W
  /\ whiteSpace # "nowrap"
  /\ whiteSpace # "pre"

\* Mutant of needToBreakWord: a word is broken only at the start of a line.
needToBreakWordAtLineStart(w, W, cw, wrap, forceBreak) ==
  isBreakWord /\ w > W /\ cw = 0

\* lines 332-333
needToBreakWord(w, W, cw, wrap, forceBreak) ==
  isBreakWord /\ w > W /\ (cw = 0 \/ wrap \/ forceBreak)

\* Mutant of SpliceWord: the fragments are built without the word's style.
SpliceWordWithoutStyle(ws, k, word) ==
  LET chars == <<<<>>>> \o [j \in 1..Len(segment(word.content)) |-> <<segment(word.content)[j]>>]
  IN SubSeq(ws, 1, k)
       \o [j \in 1..Len(chars) |-> InlineText(chars[j], NoStyle)]
       \o SubSeq(ws, k + 2, Len(ws))

\* lines 337-339: chars = segment(word.content); chars.unshift('');
\* words.splice(i, 1, ...chars.map(c => new InlineText(c, word.style)))
SpliceWord(ws, k, word) ==
  LET chars == <<<<>>>> \o [j \in 1..Len(segment(word.content)) |-> <<segment(word.content)[j]>>]
  IN SubSeq(ws, 1, k)
       \o [j \in 1..Len(chars) |-> InlineText(chars[j], word.style)]
       \o SubSeq(ws, k + 2, Len(ws))

\* lines 299-303: the width of a visible token.
TokenWidth(word, forceBreak) ==
  IF forceBreak THEN 0
  ELSE IF word.content \in graphemeImages THEN fontSize
  ELSE measureWithCache(<<word.content>>)

\* Longest list a scan that fragments each segmented word at most once can build:
\* one placeholder and the graphemes per word.
RECURSIVE FragmentedLen(_)
FragmentedLen(ws) ==
  IF ws = <<>> THEN 0
  ELSE 1 + Len(segment(Head(ws).content)) + FragmentedLen(Tail(ws))

\* ---------------------------------------------------------------- generator
\* lines 138-148: the first yield hands the words without a font to the caller.
ReportMissingFonts(canLoadAdditionalAssets) ==
  /\ pc = "start"
  /\ pc' = "fonts"
  /\ LET Missing(word) == ~EngineHas(word.content)
         wordsMissingFont == IF canLoadAdditionalAssets THEN SelectSeq(words, Missing)
                             ELSE <<>>
     IN yielded' = [kind |-> "fonts",
                    words |-> [k \in 1..Len(wordsMissingFont) |-> wordsMissingFont[k].content]]
  /\ protocol' = Append(protocol, "yield")
  /\ UNCHANGED <<words, context, parent, setMinWidthCalls, arrays, locals, result, calls,
                 history, paint>>

\* lines 150-415: resumed after the first yield, the generator estimates the
\* min-width, registers the measurement callback and suspends at the second
\* yield; with white-space pre and a word to scan, line 201 throws instead.
LayoutAfterFonts ==
  /\ pc = "fonts"
  /\ yielded' = NoValue
  /\ IF ~ReachesSetMeasureFunc(words, whiteSpace)
     THEN /\ pc' = "error"
          /\ protocol' = protocol \o <<"resume", "throw">>
          /\ UNCHANGED <<parent, setMinWidthCalls>>
     ELSE LET minWidth == ComputedMinWidth(words, whiteSpace)
              applies == AppliesMinWidth(parent, minWidth)
              clamped == ClampToMaxWidth(parent, minWidth)
          IN /\ pc' = "idle"
             /\ protocol' = protocol \o <<"resume", "setMeasureFunc", "yield">>
             /\ setMinWidthCalls' = IF applies THEN Append(setMinWidthCalls, clamped)
                                    ELSE setMinWidthCalls
             /\ parent' = [parent EXCEPT
                             !.minWidth = IF applies THEN Point(clamped) ELSE @,
                             \* lines 249-251
                             !.flexShrink = IF parent.styleFlexShrink = "undefined"
                                            THEN 1 ELSE @]
  /\ UNCHANGED <<words, context, arrays, locals, result, calls, history, paint>>

\* ---------------------------------------------------------------- measurement
\* Mutant of MeasureCall: height lives outside the callback, next to baselines,
\* and is not reset on entry.
MeasureCallKeepingHeight(W) ==
  /\ pc = "idle"
  /\ calls < MaxCalls
  /\ pc' = "scan"
  /\ calls' = calls + 1
  /\ width' = W
  /\ i' = 0 /\ lines' = 0
  /\ remainingSpace' = <<>> /\ remainingSpaceWidth' = 0
  /\ _currentWidth' = 0 /\ maxWidth' = 0 /\ lineIndex' = -1
  /\ currentLineHeight' = 0 /\ currentBaselineOffset' = 0
  /\ lineWidths' = <<>>
  /\ lineSegmentNumber' = <<0>>
  /\ startWords' = words /\ baseStart' = Len(baselines) /\ written' = {} /\ wrapLines' = {}
  /\ UNCHANGED <<height, words, context, generator, baselines, wordPositionInLayout,
                 result, log, paint>>

\* lines 260-272: the callback is entered with an available width.
MeasureCall(W) ==
  /\ pc = "idle"
  /\ calls < MaxCalls
  /\ pc' = "scan"
  /\ calls' = calls + 1
  /\ width' = W
  /\ i' = 0 /\ lines' = 0
  /\ remainingSpace' = <<>> /\ remainingSpaceWidth' = 0
  /\ _currentWidth' = 0 /\ maxWidth' = 0 /\ lineIndex' = -1 /\ height' = 0
  /\ currentLineHeight' = 0 /\ currentBaselineOffset' = 0
  /\ lineWidths' = <<>>
  /\ lineSegmentNumber' = <<0>>
  /\ startWords' = words /\ baseStart' = Len(baselines) /\ written' = {} /\ wrapLines' = {}
  /\ UNCHANGED <<words, context, generator, baselines, wordPositionInLayout, result, log,
                 paint>>

\* lines 282-297: a collapsible whitespace token.
WhitespaceToken ==
  /\ remainingSpace' = IF remainingSpace = <<>> THEN <<" ">> ELSE remainingSpace
  /\ remainingSpaceWidth' = measureWithCache(<<remainingSpace'>>)
  /\ wordPositionInLayout' = SetAt(wordPositionInLayout, i, Null)
  /\ written' = written \cup {i}
  /\ i' = i + 1
  /\ UNCHANGED <<words, lineWidths, baselines, lineSegmentNumber, lines, _currentWidth,
                 maxWidth, lineIndex, height, currentLineHeight, currentBaselineOffset,
                 wrapLines>>

\* lines 298-402: a visible token or a forced break.
VisibleToken(word, forceBreak) ==
  LET w == TokenWidth(word, forceBreak)
      \* lines 307-309
      clh == IF forceBreak /\ currentLineHeight = 0
             THEN EngineHeight(word.content) ELSE currentLineHeight
      \* lines 312-315
      rs == IF _currentWidth = 0 THEN <<>> ELSE remainingSpace
      rsw == IF _currentWidth = 0 THEN 0 ELSE remainingSpaceWidth
      allowed == allowedToPutAtBeginning(rsw, word)
      justify == allowedToJustify(_currentWidth, rsw)
      wrap == willWrap(i, allowed, _currentWidth, rsw, w, width)
      break == needToBreakWord(w, width, _currentWidth, wrap, forceBreak)
      glyphHeight == EngineHeight(word.content)
  IN IF break
     THEN \* lines 335-353
          /\ Len(words) + 1 <= FragmentedLen(origWords) + MaxExtraSplices
          /\ words' = SpliceWord(words, i, word)
          /\ IF _currentWidth > 0
             THEN /\ lineWidths' = Append(lineWidths, _currentWidth)
                  /\ baselines' = Append(baselines, currentBaselineOffset)
                  /\ lines' = lines + 1
                  /\ height' = height + clh
                  /\ _currentWidth' = 0
                  /\ currentLineHeight' = 0
                  /\ currentBaselineOffset' = 0
                  /\ lineSegmentNumber' = Append(lineSegmentNumber, 1)
                  /\ lineIndex' = -1
             ELSE /\ currentLineHeight' = clh
                  /\ UNCHANGED <<lineWidths, baselines, lines, height, _currentWidth,
                                 currentBaselineOffset, lineSegmentNumber, lineIndex>>
          /\ remainingSpace' = rs
          /\ remainingSpaceWidth' = rsw
          /\ i' = i + 1
          /\ UNCHANGED <<maxWidth, wordPositionInLayout, written, wrapLines>>
     ELSE /\ IF forceBreak \/ wrap
             THEN \* lines 355-372
                  /\ lineWidths' = Append(lineWidths, _currentWidth)
                  /\ baselines' = Append(baselines, currentBaselineOffset)
                  /\ lines' = lines + 1
                  /\ height' = height + clh
                  /\ _currentWidth' = w
                  /\ currentLineHeight' = IF w # 0 THEN glyphHeight ELSE 0
                  /\ currentBaselineOffset' = IF w # 0 THEN EngineBaseline(word.content) ELSE 0
                  /\ lineSegmentNumber' = Append(lineSegmentNumber, 1)
                  /\ lineIndex' = IF justify THEN 0 ELSE -1
                  /\ maxWidth' = Max(IF forceBreak THEN maxWidth ELSE Max(maxWidth, width), w)
                  /\ wrapLines' = IF wrap THEN wrapLines \cup {lines} ELSE wrapLines
             ELSE \* lines 373-385
                  /\ _currentWidth' = _currentWidth + rsw + w
                  /\ currentLineHeight' = IF glyphHeight > clh THEN glyphHeight ELSE clh
                  /\ currentBaselineOffset' =
                       IF glyphHeight > clh THEN EngineBaseline(word.content)
                       ELSE currentBaselineOffset
                  /\ lineSegmentNumber' =
                       IF justify
                       THEN [lineSegmentNumber EXCEPT ![Len(lineSegmentNumber)] = @ + 1]
                       ELSE lineSegmentNumber
                  /\ lineIndex' = IF justify THEN lineIndex + 1 ELSE lineIndex
                  /\ maxWidth' = Max(maxWidth, _currentWidth')
                  /\ UNCHANGED <<lineWidths, baselines, lines, height, wrapLines>>
          \* lines 387-401
          /\ remainingSpace' = <<>>
          /\ remainingSpaceWidth' = 0
          /\ wordPositionInLayout' =
               SetAt(wordPositionInLayout, i,
                     Position(_currentWidth' - w, height', w, lines', lineIndex'))
          /\ written' = written \cup {i}
          /\ i' = i + 1
          /\ UNCHANGED words

\* One iteration of the for loop, lines 277-403.
MeasureStep ==
  /\ pc = "scan"
  /\ i < Len(words)
  /\ LET word == words[i + 1]
         forceBreak == shouldKeepLinebreak /\ word.content = <<LF>>       \* line 280
     IN IF shouldCollapseWhitespace /\ IsWordSeparator(wordAt0(word)) /\ ~forceBreak
        THEN WhitespaceToken
        ELSE VisibleToken(word, forceBreak)
  /\ UNCHANGED <<context, generator, pc, width, result, calls, log, startWords, baseStart,
                 paint>>

\* lines 404-412: the loop is over; the open line is recorded and the size returned.
MeasureReturn ==
  /\ pc = "scan"
  /\ i >= Len(words)
  /\ IF _currentWidth # 0
     THEN /\ lineWidths' = Append(lineWidths, _currentWidth)
          /\ baselines' = Append(baselines, currentBaselineOffset)
          /\ lines' = lines + 1
          /\ height' = height + currentLineHeight
     ELSE UNCHANGED <<lineWidths, baselines, lines, height>>
  /\ result' = Size(maxWidth, height')
  /\ log' = Append(log, [width |-> width, words |-> startWords, result |-> result'])
  /\ pc' = "idle"
  /\ UNCHANGED <<words, context, generator, lineSegmentNumber, wordPositionInLayout, calls,
                 startWords, baseStart, written, wrapLines, paint,
                 width, i, remainingSpace, remainingSpaceWidth, _currentWidth, maxWidth,
                 lineIndex, currentLineHeight, currentBaselineOffset>>

\* The generator up to its second yield.
GeneratorStart ==
  \/ \E canLoadAdditionalAssets \in BOOLEAN : ReportMissingFonts(canLoadAdditionalAssets)
  \/ LayoutAfterFonts

MeasureNext ==
  \/ GeneratorStart
  \/ \E W \in Widths : MeasureCall(W)
  \/ MeasureStep
  \/ MeasureReturn

\* The callback alone: yoga calls it any number of times with any widths.
MeasureSpec == Init /\ [][MeasureNext]_vars

\* ---------------------------------------------------------------- painter
\* JavaScript numbers the painter computes: a fraction n/d, or no number (NaN,
\* which is also what arithmetic on undefined gives).
NaN == [nan |-> TRUE, n |-> 0, d |-> 1]

RECURSIVE GCD(_, _)
GCD(a, b) == IF b = 0 THEN a ELSE GCD(b, a % b)

Abs(n) == IF n < 0 THEN -n ELSE n

Frac(n, d) ==
  LET g == GCD(Abs(n), d)
  IN [nan |-> FALSE, n |-> n \div g, d |-> d \div g]

Num(n) == Frac(n, 1)

Plus(a, b) ==
  IF a.nan \/ b.nan THEN NaN ELSE Frac(a.n * b.d + b.n * a.d, a.d * b.d)

Minus(a, b) ==
  IF a.nan \/ b.nan THEN NaN ELSE Frac(a.n * b.d - b.n * a.d, a.d * b.d)

\* a * k / m for integers k and m > 0
Scale(a, k, m) ==
  IF a.nan THEN NaN ELSE Frac(a.n * k, a.d * m)

GreaterThan(a, b) == ~a.nan /\ ~b.nan /\ a.n * b.d > b.n * a.d

\* arr[k] read as a number (k counts from 0); undefined past the end.
NumAt(arr, k) == IF k >= 0 /\ k < Len(arr) THEN Num(arr[k + 1]) ELSE NaN

\* Mutant of JustifiesLine: the last line is justified like the others.
JustifiesEveryLine(line) == line <= Len(lineWidths) - 1

\* line 509: the last line is not justified.
JustifiesLine(line) == line < Len(lineWidths) - 1

\* lines 497-516: the left offset of a token and whether its line is extended.
Align(layout, textAlign, containerWidth) ==
  LET line == layout.line
      remainingWidth == Minus(Num(containerWidth), NumAt(lineWidths, line))
      segments == NumAt(lineSegmentNumber, line)
      gutter == IF GreaterThan(segments, Num(1))
                THEN Scale(remainingWidth, 1, segments.n - 1) ELSE Num(0)
      x == Num(layout.x)
  IN IF Len(lineWidths) > 1
     THEN IF textAlign \in {"right", "end"}
          THEN [leftOffset |-> Plus(x, remainingWidth), extendedWidth |-> FALSE]
          ELSE IF textAlign = "center"
          THEN [leftOffset |-> Plus(x, Scale(remainingWidth, 1, 2)), extendedWidth |-> FALSE]
          ELSE IF textAlign = "justify" /\ JustifiesLine(line)
          THEN [leftOffset |-> Plus(x, Scale(gutter, layout.lineIndex, 1)),
                extendedWidth |-> TRUE]
          ELSE [leftOffset |-> x, extendedWidth |-> FALSE]
     ELSE [leftOffset |-> x, extendedWidth |-> FALSE]

\* lines 534-550: the longest prefix that fits with the ellipsis, the first
\* grapheme always kept.
RECURSIVE Truncate(_, _, _, _, _, _)
Truncate(chars, subset, resolvedWidth, x, ellipsisWidth, inner) ==
  IF chars = <<>> THEN [subset |-> subset, resolvedWidth |-> resolvedWidth]
  ELSE LET w == x + measureWithCache(<<subset \o <<Head(chars)>>>>)
       IN IF subset # <<>> /\ w + ellipsisWidth > inner
          THEN [subset |-> subset, resolvedWidth |-> resolvedWidth]
          ELSE Truncate(Tail(chars), subset \o <<Head(chars)>>, w, x, ellipsisWidth, inner)

\* lines 525-530: the token is the one to truncate.
Overflows(layout, textOverflow, inner) ==
  /\ textOverflow = "ellipsis"
  /\ GreaterThan(NumAt(lineWidths, layout.line), Num(inner))
  /\ layout.x + layout.width + measureWithCache(<<<<ELLIPSIS>>>>)
       + measureWithCache(<<<<" ">>>>) > inner

\* areStylesEqual, lines 733-744; a style is undefined or a colour.
areStylesEqual(a, b) ==
  IF a = NoStyle /\ b = NoStyle THEN TRUE
  ELSE IF a = NoStyle \/ b = NoStyle THEN FALSE
  ELSE a = b

\* String(wordBuffer) in wordBuffer + word.content (line 583): wordBuffer is an
\* InlineText object.
ObjectString == "[object Object]"

\* wordSeparators.includes(word.content), line 570: the whole content is one
\* separator.
IsSeparatorWord(content) == Len(content) = 1 /\ content[1] \in wordSeparators

\* lines 569-576: the token is buffered to be merged with the next one.
MergesWithNext(k, content, topOffset) ==
  /\ ~IsSeparatorWord(content)
  /\ k + 1 < Len(words)
  /\ words[k + 2].content \notin graphemeImages
  /\ PositionAt(k + 1).kind = "pos"
  /\ topOffset = PositionAt(k + 1).y
  /\ areStylesEqual(words[k + 1].style, words[k + 2].style)

\* wordPositionInLayout[k]?.line (line 641); -1 stands for undefined.
LineAt(k) == IF PositionAt(k).kind = "pos" THEN PositionAt(k).line ELSE -1

\* The painter's state before the loop, lines 467-475.
PaintStart ==
  [skippedLine |-> -1, decorationLines |-> <<>>, tokens |-> <<>>,
   wordBuffer |-> Null, bufferedOffset |-> Num(0), buffered |-> <<>>,
   decorated |-> {}, shapes |-> <<>>, glyphs |-> <<>>]

\* One iteration of the painter loop (lines 477-688) for the word at index k;
\* st is the loop's state: skippedLine, decorationLines, wordBuffer and what was
\* emitted (tokens that reached line 558, decoration requests, glyph output).
PaintWord(k, st, textAlign, textOverflow, containerWidth, inner, embedFont, decorate) ==
  LET layout == PositionAt(k)
      word == words[k + 1]
  IN IF layout.kind # "pos" THEN st                               \* line 479
     ELSE IF layout.line = st.skippedLine THEN st                 \* lines 492-494
     ELSE
       LET line == layout.line
           al == Align(layout, textAlign, containerWidth)
           deco0 == IF line \in DOMAIN st.decorationLines          \* lines 518-523
                    THEN st.decorationLines
                    ELSE [l \in DOMAIN st.decorationLines \cup {line} |->
                            IF l = line
                            THEN [left |-> al.leftOffset,
                                  width |-> IF al.extendedWidth THEN Num(containerWidth)
                                            ELSE NumAt(lineWidths, line)]
                            ELSE st.decorationLines[l]]
           cut == Overflows(layout, textOverflow, inner)
           tr == Truncate(segment(word.content), <<>>, 0, layout.x,
                          measureWithCache(<<<<ELLIPSIS>>>>), inner)
           content == IF cut THEN tr.subset \o <<ELLIPSIS>> ELSE word.content   \* line 551
           deco1 == IF cut                                                       \* line 553
                    THEN [deco0 EXCEPT ![line].width = Num(tr.resolvedWidth)]
                    ELSE deco0
           skipped == IF cut THEN line ELSE st.skippedLine                      \* line 552
           baselineOfLine == NumAt(baselines, line)                             \* line 558
           image == word.content \in graphemeImages                             \* line 485
           token == [index |-> k, content |-> content, style |-> word.style, line |-> line,
                     leftOffset |-> al.leftOffset, extendedWidth |-> al.extendedWidth,
                     truncated |-> cut, resolvedWidth |-> IF cut THEN tr.resolvedWidth ELSE 0,
                     baselineOfLine |-> baselineOfLine,
                     \* lines 559-561, 599, 635: where the glyphs' baseline is put
                     top |-> Plus(Num(layout.y), baselineOfLine)]
           seen == [st EXCEPT !.skippedLine = skipped, !.decorationLines = deco1,
                              !.tokens = Append(st.tokens, token)]
       IN IF ~image /\ embedFont /\ MergesWithNext(k, content, layout.y)
          THEN \* lines 577-584: buffered, and the rest of the iteration is skipped
               [seen EXCEPT
                  !.bufferedOffset = IF st.wordBuffer = Null THEN al.leftOffset
                                     ELSE st.bufferedOffset,
                  !.wordBuffer = IF st.wordBuffer = Null
                                 THEN InlineText(content, word.style)
                                 ELSE InlineText(<<ObjectString>> \o content, word.style),
                  !.buffered = Append(st.buffered, k)]
          ELSE
            LET asPath == ~image /\ embedFont
                \* lines 587-592
                finalized == IF asPath /\ st.wordBuffer # Null
                             THEN st.wordBuffer.content \o content ELSE content
                finalizedLeft == IF asPath /\ st.wordBuffer # Null
                                 THEN st.bufferedOffset ELSE al.leftOffset
                \* lines 639-656
                wanted == /\ decorate
                          /\ (line # LineAt(k + 1) \/ skipped = line)
                          /\ line \notin st.decorated
                shape == [line |-> line, left |-> deco1[line].left,
                          width |-> deco1[line].width, index |-> k]
                \* lines 595-603 and 659-687
                glyph == [kind |-> IF asPath THEN "path" ELSE "text",
                          content |-> finalized, left |-> finalizedLeft,
                          top |-> token.top, style |-> word.style,
                          indices |-> IF asPath THEN Append(st.buffered, k) ELSE <<k>>]
            IN [seen EXCEPT
                  !.wordBuffer = IF asPath THEN Null ELSE st.wordBuffer,
                  !.buffered = IF asPath THEN <<>> ELSE st.buffered,
                  !.decorated = IF wanted THEN st.decorated \cup {line} ELSE st.decorated,
                  !.shapes = IF wanted THEN Append(st.shapes, shape) ELSE st.shapes,
                  !.glyphs = Append(st.glyphs, glyph)]

RECURSIVE PaintLoop(_, _, _, _, _, _, _, _)
PaintLoop(k, st, textAlign, textOverflow, containerWidth, inner, embedFont, decorate) ==
  IF k >= Len(words) THEN st
  ELSE PaintLoop(k + 1,
                 PaintWord(k, st, textAlign, textOverflow, containerWidth, inner,
                           embedFont, decorate),
                 textAlign, textOverflow, containerWidth, inner, embedFont, decorate)

TextAligns == {"left", "right", "center", "justify"}
TextOverflows == {"clip", "ellipsis"}

\* lines 415-688: the generator is resumed once yoga has committed the geometry
\* (containerWidth is the text node's computed width, inner the parent's content
\* box width), and the painter loop runs over the word list. embedFont is the
\* context's flag, decorate is parentStyle.textDecorationLine being set.
Paint(textAlign, textOverflow, containerWidth, inner, embedFont, decorate) ==
  /\ pc = "idle"
  /\ pc' = "painted"
  /\ paint' =
       [kind |-> "done", textAlign |-> textAlign, textOverflow |-> textOverflow,
        containerWidth |-> containerWidth, inner |-> inner,
        embedFont |-> embedFont, decorate |-> decorate,
        out |-> PaintLoop(0, PaintStart, textAlign, textOverflow, containerWidth, inner,
                          embedFont, decorate)]
  /\ protocol' = protocol \o <<"resume", "paint", "return">>
  /\ yielded' = NoValue
  /\ UNCHANGED <<words, context, parent, setMinWidthCalls, arrays, locals, result, calls,
                 history>>

Next ==
  \/ GeneratorStart
  \/ \E W \in Widths : MeasureCall(W)
  \/ MeasureStep
  \/ MeasureReturn
  \/ \E textAlign \in TextAligns, textOverflow \in TextOverflows,
        containerWidth \in Widths, inner \in Widths, embedFont \in BOOLEAN :
       Paint(textAlign, textOverflow, containerWidth, inner, embedFont, FALSE)

Spec == Init /\ [][Next]_vars

\* The painter of a justified block: text-align is justify, and the text node
\* fills the content box of a parent without padding or border.
JustifyNext ==
  \/ GeneratorStart
  \/ \E W \in Widths : MeasureCall(W)
  \/ MeasureStep
  \/ MeasureReturn
  \/ \E textOverflow \in TextOverflows, containerWidth \in Widths :
       Paint("justify", textOverflow, containerWidth, containerWidth, FALSE, FALSE)

JustifySpec == Init /\ [][JustifyNext]_vars

\* The painter of a decorated block: parentStyle.textDecorationLine is set, the
\* text is left-aligned, glyphs are embedded as outlines or emitted as text.
DecorationNext ==
  \/ GeneratorStart
  \/ \E W \in Widths : MeasureCall(W)
  \/ MeasureStep
  \/ MeasureReturn
  \/ \E textOverflow \in TextOverflows, containerWidth \in Widths, inner \in Widths,
        embedFont \in BOOLEAN :
       Paint("left", textOverflow, containerWidth, inner, embedFont, TRUE)

DecorationSpec == Init /\ [][DecorationNext]_vars

\* The callback on texts with closing punctuation.
PunctuationSpec == InitPunctuated /\ [][MeasureNext]_vars

\* The min-width estimator alone, on parents with explicit constraints.
EstimatorNext == GeneratorStart

EstimatorSpec == InitWithParent /\ [][EstimatorNext]_vars

\* ---------------------------------------------------------------- claims
Returned == pc # "scan" /\ calls > 0
lastWidth == log[Len(log)].width
Spliced == Len(words) > Len(startWords)

\* C1: after every invocation of the measurement callback the word-position
\* array has exactly as many entries as the word list.
C1_PositionsAlignedWithWords ==
  Returned => Len(wordPositionInLayout) = Len(words)

\* A call that spliced a word into graphemes has returned.
C1_Witness == Returned /\ Spliced /\ Len(log) = 2

\* C2: after every invocation lineWidths, baselines and lineSegmentNumber have
\* the same length.
C2_LineArraysSameLength ==
  Returned =>
    /\ Len(lineWidths) = Len(baselines)
    /\ Len(lineWidths) = Len(lineSegmentNumber)

\* C4: two invocations with the same available width and the same word sequence
\* at entry return the same {width, height}.
C4_SameWidthSameWordsSameSize ==
  \A a, b \in 1..Len(log) :
    (log[a].width = log[b].width /\ log[a].words = log[b].words)
      => log[a].result = log[b].result

\* Two calls were made with one width on one unchanged, non-empty word list that
\* needs more than one line.
C4_Witness ==
  /\ pc = "idle" /\ Len(log) = 2
  /\ log[1].width = log[2].width /\ log[1].words = log[2].words
  /\ Len(lineWidths) > 1

\* C5: measure(w) returns what it would return as the first call of the
\* invocation, whatever calls came before: every call with the width of the first
\* call returns what the first call returned.
C5_PureFunctionOfWidth ==
  \A b \in 1..Len(log) :
    log[b].width = log[1].width => log[b].result = log[1].result

\* C6: in break-word mode a call terminates because each over-wide token is
\* fragmented once and a single over-wide grapheme is placed, not fragmented: the
\* list never grows beyond one placeholder plus the graphemes per segmented word.
C6_FragmentationIsFinite ==
  Len(words) <= FragmentedLen(origWords)

Overwide(k) ==
  /\ PositionAt(k - 1).kind = "pos"
  /\ measureWithCache(<<words[k].content>>) > lastWidth
  /\ ~(Len(segment(words[k].content)) = 1)

\* C7 (as claimed): in break-word mode, after a call with width W, no word with a
\* position record is wider than W, except a single grapheme wider than W.
C7_NoOverwideWord ==
  (Returned /\ isBreakWord) => \A k \in 1..Len(words) : ~Overwide(k)

\* C7 (amended): the same, when white-space is neither nowrap nor pre.
C7_NoOverwideWordWhenWrapping ==
  (Returned /\ isBreakWord /\ whiteSpace \notin {"nowrap", "pre"})
    => \A k \in 1..Len(words) : ~Overwide(k)

\* A wrapping break-word call fragmented a word and placed the fragments.
C7_Witness ==
  /\ Returned /\ isBreakWord /\ whiteSpace \notin {"nowrap", "pre"}
  /\ Spliced
  /\ \E k \in 1..Len(words) : PositionAt(k - 1).kind = "pos" /\ words[k].content # <<>>

RECURSIVE IsExpansion(_, _)
IsExpansion(orig, ws) ==
  IF orig = <<>> THEN ws = <<>>
  ELSE LET word == Head(orig)
           n == Len(word.content)
       IN \/ /\ ws # <<>>
             /\ Head(ws) = word
             /\ IsExpansion(Tail(orig), Tail(ws))
          \/ /\ Len(ws) >= n + 1
             /\ ws[1] = InlineText(<<>>, word.style)
             /\ \A j \in 1..n : ws[j + 1] = InlineText(<<word.content[j]>>, word.style)
             /\ IsExpansion(Tail(orig), SubSeq(ws, n + 2, Len(ws)))

RECURSIVE Concat(_)
Concat(ws) == IF ws = <<>> THEN <<>> ELSE Head(ws).content \o Concat(Tail(ws))

\* C8: after any sequence of calls the word list is the segmented list with some
\* words replaced in place by an empty placeholder and their graphemes, each with
\* the word's style; the concatenated content is unchanged.
C8_WordsAreExpansionOfSegmentation ==
  pc # "scan" => IsExpansion(origWords, words) /\ Concat(words) = Concat(origWords)

\* A styled word has been fragmented and the call has returned.
C8_Witness ==
  /\ Returned /\ Spliced
  /\ \E k \in 1..Len(words) : words[k].content = <<>> /\ words[k].style = "red"

Painted == pc = "painted"
Emitted == paint.out.tokens

\* The baselines the last call pushed (baselines is never reset).
lastBaselines == SubSeq(baselines, baseStart + 1, Len(baselines))

\* C3: the line metrics the painter reads for a line are those the most recent
\* call computed for it: width, segment count and baseline.
C3_PainterReadsLastCallMetrics ==
  Painted =>
    \A t \in 1..Len(Emitted) :
      Emitted[t].baselineOfLine = NumAt(lastBaselines, Emitted[t].line)

\* C9: with text-align justify and more than one recorded line, no token on the
\* last recorded line is shifted and its line is not marked width-extended.
C9_LastLineNotJustified ==
  (Painted /\ paint.textAlign = "justify" /\ Len(lineWidths) > 1) =>
    \A t \in 1..Len(Emitted) :
      Emitted[t].line = Len(lineWidths) - 1 =>
        /\ Emitted[t].leftOffset = Num(PositionAt(Emitted[t].index).x)
        /\ ~Emitted[t].extendedWidth

\* A justified block was painted in which a token of an earlier line was shifted
\* and a token sits on the last recorded line.
C9_Witness ==
  /\ Painted /\ paint.textAlign = "justify" /\ Len(lineWidths) > 1
  /\ \E t \in 1..Len(Emitted) : Emitted[t].line = Len(lineWidths) - 1
  /\ \E t \in 1..Len(Emitted) :
       /\ Emitted[t].extendedWidth
       /\ Emitted[t].leftOffset # Num(PositionAt(Emitted[t].index).x)

\* C10: a truncated token is a prefix of at least one grapheme of the token
\* followed by the ellipsis, and the truncated width is within one glyph of the
\* parent's content-box width.
C10_EllipsisKeepsAGrapheme ==
  Painted =>
    \A t \in 1..Len(Emitted) :
      Emitted[t].truncated =>
        LET original == words[Emitted[t].index + 1].content
            shown == Emitted[t].content
            prefix == SubSeq(shown, 1, Len(shown) - 1)
        IN /\ shown[Len(shown)] = ELLIPSIS
           /\ Len(prefix) >= 1
           /\ Len(prefix) <= Len(original)
           /\ prefix = SubSeq(original, 1, Len(prefix))
           /\ Emitted[t].resolvedWidth <= paint.inner + GlyphWidth(prefix[1])

Shapes == paint.out.shapes
Glyphs == paint.out.glyphs

\* The lines of the tokens whose glyphs were emitted, alone or merged into a path.
RenderedLines ==
  UNION { { PositionAt(Glyphs[g].indices[j]).line : j \in 1..Len(Glyphs[g].indices) } :
          g \in 1..Len(Glyphs) }

ShapesOfLine(line) == { d \in 1..Len(Shapes) : Shapes[d].line = line }

\* C11: with a text decoration configured, exactly one decoration shape is
\* requested for each line that has at least one rendered token.
C11_OneDecorationPerRenderedLine ==
  (Painted /\ paint.decorate) =>
    \A line \in RenderedLines : Cardinality(ShapesOfLine(line)) = 1

Estimated == pc = "idle" /\ calls = 0
computedMinWidth == ComputedMinWidth(origWords, whiteSpace)

\* The length an explicit max-width stands for: a percentage refers to the width
\* of the parent's containing block.
ResolvedMaxWidth(p) ==
  IF p.maxWidth.unit = 1 THEN p.maxWidth.value
  ELSE (p.maxWidth.value * p.containing) \div 100

\* C12: when the estimator sets the parent's min-width and the parent has an
\* explicit max-width, the value set does not exceed that max-width.
C12_MinWidthWithinMaxWidth ==
  \A k \in 1..Len(setMinWidthCalls) :
    ~isNaN(origParent.maxWidth) => setMinWidthCalls[k] <= ResolvedMaxWidth(origParent)

\* C19 (condition of the claim): no explicit width, and no min-width or a literal
\* min-width smaller than the computed value.
ClaimedToApply ==
  /\ isNaN(origParent.width)
  /\ \/ isNaN(origParent.minWidth)
     \/ (origParent.minWidth.unit = 1 /\ origParent.minWidth.value < computedMinWidth)

\* C19: the estimator sets the parent's min-width exactly under that condition,
\* and leaves it unchanged in every other case.
C19_MinWidthSetOnlyWhenWeaker ==
  Estimated =>
    /\ (setMinWidthCalls # <<>>) <=> ClaimedToApply
    /\ ~ClaimedToApply => parent.minWidth = origParent.minWidth

LineFeeds(ws) == { k \in 1..Len(ws) : ws[k].content = <<LF>> }

\* The list is non-empty segments separated by single line-feeds.
SegmentsNonEmpty(ws) ==
  /\ ws # <<>>
  /\ 1 \notin LineFeeds(ws) /\ Len(ws) \notin LineFeeds(ws)
  /\ \A k \in LineFeeds(ws) : k + 1 \notin LineFeeds(ws)

\* The available width is ample: no line-feed-free run of the text is wider.
RECURSIVE Ample(_, _, _)
Ample(ws, run, W) ==
  IF ws = <<>> THEN run <= W
  ELSE IF Head(ws).content = <<LF>> THEN run <= W /\ Ample(Tail(ws), 0, W)
  ELSE Ample(Tail(ws), run + measureWithCache(<<Head(ws).content>>), W)

\* C13: with white-space pre, pre-wrap or pre-line layout completes without
\* error, and k + 1 non-empty segments separated by k line-feeds are laid out on
\* at least k + 1 lines, exactly k + 1 when the width is ample.
C13_LineFeedsForceLines ==
  shouldKeepLinebreak =>
    /\ pc # "error"
    /\ (Returned /\ SegmentsNonEmpty(origWords)) =>
         /\ lines >= Cardinality(LineFeeds(origWords)) + 1
         /\ Ample(origWords, 0, lastWidth) =>
              lines = Cardinality(LineFeeds(origWords)) + 1

\* What the claim expects of one invocation, in order.
ExpectedProtocol ==
  <<"yield", "resume", "setMeasureFunc", "yield", "resume", "paint", "return">>

Ended == pc \in {"painted", "error"}

\* C14: an invocation suspends exactly twice, first to report the missing fonts
\* before the callback is registered, then after registering it; the callback
\* never suspends, the painter runs once after the second resume and the
\* invocation returns: the events so far are a prefix of that sequence, the
\* callback runs only while the generator waits at its second yield, and an
\* invocation that has ended went through all of it.
C14_SuspendsTwiceThenPaints ==
  /\ Len(protocol) <= Len(ExpectedProtocol)
  /\ protocol = SubSeq(ExpectedProtocol, 1, Len(protocol))
  /\ pc = "scan" => Len(protocol) = 4
  /\ Ended => protocol = ExpectedProtocol

\* C15: after a call, the position entry of every word index was written during
\* that call; none is missing or left by an earlier call.
C15_EveryPositionWrittenByLastCall ==
  Returned => \A k \in 0..(Len(words) - 1) : k \in written

\* The token is collapsible whitespace: it starts with a word separator and is
\* not a forced break.
Collapsible(word) ==
  /\ shouldCollapseWhitespace
  /\ StartsWithSeparator(word.content)
  /\ ~(shouldKeepLinebreak /\ word.content = <<LF>>)

\* The widths of the visible tokens plus one space per run of collapsible tokens.
RECURSIVE CollapsedWidth(_, _)
CollapsedWidth(ws, inRun) ==
  IF ws = <<>> THEN 0
  ELSE IF Collapsible(Head(ws))
  THEN (IF inRun THEN 0 ELSE measureWithCache(<<<<" ">>>>)) + CollapsedWidth(Tail(ws), TRUE)
  ELSE measureWithCache(<<Head(ws).content>>) + CollapsedWidth(Tail(ws), FALSE)

\* C16: in a collapsing white-space mode every collapsible token has a null
\* position after a call, and a run of them adds at most one space width to its
\* line (stated for the single line of a nowrap text).
C16_CollapsedWhitespaceIsNull ==
  (Returned /\ shouldCollapseWhitespace) =>
    /\ \A k \in 1..Len(words) : Collapsible(words[k]) => PositionAt(k - 1) = Null
    /\ whiteSpace = "nowrap" =>
         \A l \in 1..Len(lineWidths) : lineWidths[l] <= CollapsedWidth(words, FALSE)

\* C17: a token that is first on its line is never wrapped: no line recorded
\* because the wrap decision held is a zero-width line.
C17_NoEmptyLineThroughWrap ==
  \A l \in wrapLines : l < Len(lineWidths) => lineWidths[l + 1] > 0

\* The token at index k (from 0) starts with closing punctuation, follows a token
\* that is not whitespace, and both were placed by the last call.
PunctuationAfterWord(k) ==
  /\ k >= 1 /\ k < Len(words)
  /\ words[k + 1].content # <<>>
  /\ words[k + 1].content[1] \in ClosingPunctuation
  /\ words[k].content # <<>>
  /\ ~StartsWithSeparator(words[k].content)
  /\ {k - 1, k} \subseteq written
  /\ PositionAt(k - 1).kind = "pos" /\ PositionAt(k).kind = "pos"

\* C18: a token that starts with closing punctuation and is not preceded by a
\* joinable space is placed on the line of the token before it, even when the
\* line then exceeds the width.
C18_ClosingPunctuationStaysOnLine ==
  Returned =>
    \A k \in 1..(Len(words) - 1) :
      PunctuationAfterWord(k) => PositionAt(k).line = PositionAt(k - 1).line

\* The indices (from 0) of the tokens the last call placed on line l.
TokensOnLine(l) ==
  { k \in written : PositionAt(k).kind = "pos" /\ PositionAt(k).line = l }

\* The token at index k is first on its line or follows a joinable space.
JustifyEligible(k) ==
  \/ \A j \in TokensOnLine(PositionAt(k).line) : j >= k
  \/ (k >= 1 /\ Collapsible(words[k]))

EligibleOnLine(l) == { k \in TokensOnLine(l) : JustifyEligible(k) }

\* C20: after a call, the segment count of every recorded line is the number of
\* justify-eligible tokens on it, these carry the gutter indices 0, 1, 2, ... in
\* order, and no position record has a negative gutter index.
C20_SegmentCountsMatchEligibleTokens ==
  Returned =>
    /\ \A k \in written : PositionAt(k).kind = "pos" => PositionAt(k).lineIndex >= 0
    /\ \A l \in 0..(Len(lineWidths) - 1) :
         /\ TokensOnLine(l) # {} => lineSegmentNumber[l + 1] = Cardinality(EligibleOnLine(l))
         /\ \A k \in EligibleOnLine(l) :
              PositionAt(k).lineIndex = Cardinality({ j \in EligibleOnLine(l) : j < k })

\* The glyph outputs (text elements or outline paths) that carry the token at
\* index k.
GlyphsOf(k) ==
  { g \in 1..Len(Glyphs) : \E j \in 1..Len(Glyphs[g].indices) : Glyphs[g].indices[j] = k }

\* The output g was requested while the painter was at a token of the given line.
RequestedAtLine(g, line) ==
  PositionAt(Glyphs[g].indices[Len(Glyphs[g].indices)]).line = line

\* C21: when a token is truncated, the truncated token (prefix plus ellipsis) is
\* emitted exactly once and at its line, every token the painter reached before it
\* on that line is emitted, no later token of that line is emitted, and the
\* tokens the painter reached on other lines are emitted.
C21_TruncatedTokenEmittedOnce ==
  Painted =>
    \A t \in 1..Len(Emitted) :
      Emitted[t].truncated =>
        /\ Cardinality(GlyphsOf(Emitted[t].index)) = 1
        /\ \A g \in GlyphsOf(Emitted[t].index) :
             /\ RequestedAtLine(g, Emitted[t].line)
             /\ Len(Glyphs[g].content) >= Len(Emitted[t].content)
             /\ SubSeq(Glyphs[g].content,
                       Len(Glyphs[g].content) - Len(Emitted[t].content) + 1,
                       Len(Glyphs[g].content)) = Emitted[t].content
        /\ \A u \in 1..Len(Emitted) :
             (u # t /\ ~Emitted[u].truncated) => GlyphsOf(Emitted[u].index) # {}
        /\ \A k \in (Emitted[t].index + 1)..(Len(words) - 1) :
             (PositionAt(k).kind = "pos" /\ PositionAt(k).line = Emitted[t].line)
               => GlyphsOf(k) = {}

\* The record of the token at index k among those the painter reached.
TokenAt(k) == Emitted[CHOOSE t \in 1..Len(Emitted) : Emitted[t].index = k]

\* The contents of the tokens at the given indices, concatenated in order.
RECURSIVE RunContent(_)
RunContent(indices) ==
  IF indices = <<>> THEN <<>>
  ELSE TokenAt(Head(indices)).content \o RunContent(Tail(indices))

\* The indices are adjacent and their tokens share line, vertical offset and
\* colour.
IsRun(indices) ==
  /\ indices # <<>>
  /\ \A j \in 1..(Len(indices) - 1) : indices[j + 1] = indices[j] + 1
  /\ \A j \in 1..Len(indices) :
       /\ TokenAt(indices[j]).line = TokenAt(indices[1]).line
       /\ PositionAt(indices[j]).y = PositionAt(indices[1]).y
       /\ TokenAt(indices[j]).style = TokenAt(indices[1]).style

\* C22: with outline embedding every path request carries the in-order
\* concatenation of the contents of one run of adjacent tokens sharing line,
\* vertical offset and colour, anchored at the left offset of the run's first
\* token; every token the painter reached is in exactly one request, and the
\* buffer is empty when the painter finishes.
C22_PathsCarryWholeRuns ==
  (Painted /\ paint.embedFont) =>
    /\ \A g \in 1..Len(Glyphs) :
         /\ Glyphs[g].kind = "path"
         /\ IsRun(Glyphs[g].indices)
         /\ Glyphs[g].content = RunContent(Glyphs[g].indices)
         /\ Glyphs[g].left = TokenAt(Glyphs[g].indices[1]).leftOffset
    /\ \A t \in 1..Len(Emitted) : Cardinality(GlyphsOf(Emitted[t].index)) = 1
    /\ paint.out.wordBuffer = Null

====
